---- MODULE Spec2Model ----
(***************************************************************************)
(* Model of abletonosc/osc_server.py: class OSCServer, a non-blocking UDP  *)
(* endpoint that drains queued datagrams, decodes them as OSC messages,    *)
(* dispatches them by address to registered handlers and replies to the    *)
(* sender's host on a fixed response port.                                 *)
(*                                                                         *)
(* Python exceptions are modelled by the name of their class; the try /    *)
(* except structure of send() and process() is modelled clause by clause.  *)
(***************************************************************************)
EXTENDS Integers, Sequences, FiniteSets, TLC

(***************************************************************************)
(* Bounds of the model.                                                    *)
(***************************************************************************)
MaxArrivals == 2   \* datagrams that arrive on the socket in one behaviour

(***************************************************************************)
(* Program constants (abletonosc/constants.py, imported at line 2).        *)
(***************************************************************************)
OSC_LISTEN_PORT == 11000
OSC_RESPONSE_PORT == 11001

None == "None"
NoExc == "none"
\* remote_addr=None, the default of send()'s third parameter
NoneAddr == <<>>

(***************************************************************************)
(* Inputs.                                                                 *)
(***************************************************************************)
\* OSC addresses: exact strings, two of them differing only by case.
Addresses == {"/a", "/A"}
\* Handler functions (callables) the application may register.
Handlers == {"h1", "h2"}
\* UDP source endpoints of inbound datagrams; the second one uses the
\* response port as its source port.
Sources == {<<"1.2.3.4", 55000>>, <<"5.6.7.8", OSC_RESPONSE_PORT>>}
\* Explicit destinations a caller may pass to send().
Destinations == {<<"9.9.9.9", 9000>>}
\* Kinds of OSC argument values: one the codec encodes, one whose type
\* add_arg rejects, one that add_arg accepts and build() rejects.
ArgKinds == {"int", "unsupported", "overflow"}

\* params tuples: of a send() call, or returned by a handler
ParamTuples ==
    {<<>>, <<"int">>, <<"unsupported">>, <<"overflow">>,
     <<"int", "overflow">>, <<"overflow", "unsupported">>}

VARIABLES
    local_addr,      \* self._local_addr
    remote_addr,     \* self._remote_addr
    response_port,   \* self._response_port
    callbacks,       \* self._callbacks: dict address -> handler
    queue,           \* datagrams queued on self._socket, oldest first
    sent,            \* datagrams transmitted by sendto during the current call
    pc,              \* position of the process() call
    cur,             \* locals of process(): data, remote_addr, message, callback, rv
    invoked,         \* history: handler invocations of the current process() call
    lastCall,        \* history: the current call of send()/process() and how it ended
    batch,           \* history: ids of the datagrams queued when process() was called
    recvd,           \* history: the datagrams received by the current process() call
                     \* (their ids, and whether they are well-formed)
    arrived,         \* number of datagrams that arrived so far
    registered       \* history: per address, the handler registered last

vars == <<local_addr, remote_addr, response_port, callbacks, queue, sent, pc, cur,
          invoked, lastCall, batch, recvd, arrived, registered>>

(***************************************************************************)
(* Exceptions: the class name and, for socket.error, the errno.            *)
(***************************************************************************)
Exc(cls) == [cls |-> cls, errno |-> None]
SocketError(errno) == [cls |-> "socket.error", errno |-> errno]
NoError == Exc(NoExc)
\* errno values a non-blocking UDP socket reports
WouldBlockErrnos == {"EAGAIN", "EWOULDBLOCK"}
OtherErrnos == {"ECONNREFUSED"}
\* outcomes of self._socket.sendto(): transmitted, or socket.error
SendtoOutcomes == {NoError} \cup {SocketError(e) : e \in {"EAGAIN"} \cup OtherErrnos}

(***************************************************************************)
(* The codec (pythonosc): OscMessage parses a datagram, OscMessageBuilder  *)
(* builds one. A well-formed datagram is <<address, params>> on the wire,  *)
(* a message is a record; anything else on the wire does not parse.        *)
(***************************************************************************)
Garbage == <<"garbage">>
Encode(address, params) == <<address, params>>
WellFormed(data) == Len(data) = 2

\* OscMessage(data): the parsed message, or ParseError
OscMessage(data) ==
    IF WellFormed(data)
    THEN [exc |-> NoError, address |-> data[1], params |-> data[2]]
    ELSE [exc |-> Exc("ParseError"), address |-> None, params |-> <<>>]

\* msg_builder.add_arg(param) for each param in order: the first argument
\* whose type the builder does not support raises ValueError
RECURSIVE add_args(_)
add_args(params) ==
    IF params = <<>> THEN NoError
    ELSE IF Head(params) = "unsupported" THEN Exc("ValueError")
    ELSE add_args(Tail(params))

\* msg_builder.build(): BuildError when an added argument cannot be encoded
build(address, params) ==
    IF \E i \in 1..Len(params) : params[i] = "overflow"
    THEN [exc |-> Exc("BuildError"), dgram |-> <<>>]
    ELSE [exc |-> NoError, dgram |-> Encode(address, params)]

(***************************************************************************)
(* send(address, params, remote_addr), lines 41-62, as a function of the   *)
(* object's default remote address and of what sendto does (net).          *)
(* Result: the datagrams transmitted, the exception that leaves send()     *)
(* (NoError when it returns normally) and the number of sendto calls.      *)
(***************************************************************************)
\* line 61: the only except clause of send()
send_except(e) == e.cls = "BuildError"

\* a send() that ignores the destination it is given
send_destination_default(dest, default) == default

\* lines 58-59
send_destination(dest, default) == IF dest = NoneAddr THEN default ELSE dest

send(address, params, dest, default, net) ==
    LET added == add_args(params)               \* lines 52-54, outside the try
        built == build(address, params)         \* line 57
        target == send_destination(dest, default)
        \* the exception raised inside the try block, lines 57-60
        raised == IF built.exc # NoError THEN built.exc ELSE net
        attempts == IF built.exc # NoError THEN 0 ELSE 1
    IN  IF added # NoError
        THEN [out |-> <<>>, exc |-> added, attempts |-> 0]
        ELSE IF raised = NoError
        THEN [out |-> <<[dgram |-> built.dgram, dest |-> target]>>,
              exc |-> NoError, attempts |-> attempts]
        ELSE IF send_except(raised)
        THEN [out |-> <<>>, exc |-> NoError, attempts |-> attempts]
        ELSE [out |-> <<>>, exc |-> raised, attempts |-> attempts]

(***************************************************************************)
(* Inbound datagrams and what a handler may do when it is called.          *)
(***************************************************************************)
InboundData == {Garbage} \cup {Encode(a, <<>>) : a \in Addresses}
\* what recvfrom may return as (data, remote_addr): every kind of data from
\* the first source, and a message from the source that uses the response port
Inbound ==
    {m \in [src : Sources, data : InboundData] :
        m.src[2] # OSC_RESPONSE_PORT \/ m.data = Encode("/a", <<>>)}
NoDgram == [id |-> 0, src |-> <<>>, data |-> <<>>]
\* a handler returns None or a params tuple, or raises
ReturnNone == [isNone |-> TRUE, value |-> <<>>]
ReturnValue(params) == [isNone |-> FALSE, value |-> params]
HandlerReturns == {ReturnNone} \cup {ReturnValue(p) : p \in ParamTuples}
NoCur == [dgram |-> NoDgram, address |-> None, callback |-> None, rv |-> ReturnNone]
\* the remote addresses the constructor may be given
RemoteAddrs == {<<"127.0.0.1", OSC_RESPONSE_PORT>>}

EmptyDict == [a \in {} |-> None]
NoReg == [handler |-> None]
NoCall == [op |-> None, exc |-> NoError, exit |-> None, at |-> None, attempts |-> 0,
           address |-> None, params |-> <<>>, dest |-> NoneAddr]

(***************************************************************************)
(* __init__, lines 22-29.                                                  *)
(***************************************************************************)
Init ==
    /\ local_addr = <<"0.0.0.0", OSC_LISTEN_PORT>>
    /\ remote_addr \in RemoteAddrs
    /\ response_port = remote_addr[2]
    /\ callbacks = EmptyDict
    /\ queue = <<>>
    /\ sent = <<>>
    /\ pc = "IDLE"
    /\ cur = NoCur
    /\ invoked = <<>>
    /\ lastCall = NoCall
    /\ batch = <<>>
    /\ recvd = <<>>
    /\ arrived = 0
    /\ registered = [a \in Addresses |-> NoReg]

\* pc = "IDLE": the application is running, no call of send() or process()
\* is active. pc = "DONE" / "SENT": process() / send() has just ended and
\* the history variables describe that call.
AtCaller == pc = "IDLE"

config == <<local_addr, remote_addr, response_port>>

(***************************************************************************)
(* The network delivers a datagram to the socket's receive queue.          *)
(***************************************************************************)
Arrive ==
    /\ pc \notin {"DONE", "SENT"}
    /\ arrived < MaxArrivals
    /\ \E d \in Inbound :
          queue' = Append(queue, [id |-> arrived + 1, src |-> d.src, data |-> d.data])
    /\ arrived' = arrived + 1
    /\ UNCHANGED <<config, callbacks, sent, pc, cur, invoked, lastCall, batch, recvd, registered>>

(***************************************************************************)
(* Handler registry, lines 35-39.                                          *)
(***************************************************************************)
\* a registry that keeps the first handler registered under an address
dict_set_keep_first(dict, address, handler) ==
    IF address \in DOMAIN dict THEN dict ELSE (address :> handler) @@ dict

\* self._callbacks[address] = handler
dict_set(dict, address, handler) == (address :> handler) @@ dict

\* a clear that leaves the registry as it is
dict_clear_noop(dict) == dict

\* line 39: self._callbacks = {}
dict_clear(dict) == EmptyDict

\* the calls of add_handler / clear_handlers: by the application, or by a
\* handler while process() runs it
AddHandler(address, handler) == [op |-> "add_handler", address |-> address, handler |-> handler]
ClearHandlers == [op |-> "clear_handlers", address |-> None, handler |-> None]
NoRegistryCall == [op |-> "none", address |-> None, handler |-> None]
RegistryCalls ==
    {ClearHandlers} \cup {AddHandler(a, h) : a \in Addresses, h \in Handlers}

\* self._callbacks after the call c
callbacks_after(c, dict) ==
    IF c.op = "add_handler" THEN dict_set(dict, c.address, c.handler)
    ELSE IF c.op = "clear_handlers" THEN dict_clear(dict)
    ELSE dict

\* the history of registrations after the call c
registered_after(c, reg) ==
    IF c.op = "add_handler"
    THEN [reg EXCEPT ![c.address] = [handler |-> c.handler]]
    ELSE IF c.op = "clear_handlers" THEN [a \in Addresses |-> NoReg]
    ELSE reg

add_handler ==
    /\ AtCaller
    /\ \E address \in Addresses, handler \in Handlers :
          /\ callbacks' = callbacks_after(AddHandler(address, handler), callbacks)
          /\ registered' = registered_after(AddHandler(address, handler), registered)
    /\ UNCHANGED <<config, queue, sent, pc, cur, invoked, lastCall, batch, recvd, arrived>>

clear_handlers ==
    /\ AtCaller
    /\ callbacks' = callbacks_after(ClearHandlers, callbacks)
    /\ registered' = registered_after(ClearHandlers, registered)
    /\ UNCHANGED <<config, queue, sent, pc, cur, invoked, lastCall, batch, recvd, arrived>>

(***************************************************************************)
(* A direct call of send() by the application, lines 41-62.                *)
(***************************************************************************)
Transmitted(out, by, cause) ==
    [i \in 1..Len(out) |-> [dgram |-> out[i].dgram, dest |-> out[i].dest,
                            by |-> by, cause |-> cause]]

\* a send() that keeps an explicit destination as the new default
CallSend_SetsDefault ==
    /\ AtCaller
    /\ \E address \in Addresses, params \in ParamTuples,
          dest \in {NoneAddr} \cup Destinations, net \in SendtoOutcomes :
          LET r == send(address, params, dest, remote_addr, net)
          IN /\ sent' = Transmitted(r.out, "send", NoDgram)
             /\ lastCall' = [op |-> "send", exc |-> r.exc, exit |-> None, at |-> None,
                             attempts |-> r.attempts, address |-> address,
                             params |-> params, dest |-> dest]
             /\ remote_addr' = IF dest = NoneAddr THEN remote_addr ELSE dest
    /\ pc' = "SENT"
    /\ UNCHANGED <<local_addr, response_port, callbacks, queue, cur, invoked, batch,
                   recvd, arrived, registered>>

CallSend ==
    /\ AtCaller
    /\ \E address \in Addresses, params \in ParamTuples,
          dest \in {NoneAddr} \cup Destinations, net \in SendtoOutcomes :
          LET r == send(address, params, dest, remote_addr, net)
          IN /\ sent' = Transmitted(r.out, "send", NoDgram)
             /\ lastCall' = [op |-> "send", exc |-> r.exc, exit |-> None, at |-> None,
                             attempts |-> r.attempts, address |-> address,
                             params |-> params, dest |-> dest]
    /\ pc' = "SENT"
    /\ UNCHANGED <<config, callbacks, queue, cur, invoked, batch, recvd, arrived, registered>>

(***************************************************************************)
(* Control is back in the application after send() or process() ended      *)
(* (lines 62, 91, 93, 96); the record of the call is dropped.              *)
(***************************************************************************)
Return ==
    /\ pc \in {"DONE", "SENT"}
    /\ pc' = "IDLE"
    /\ sent' = <<>>
    /\ invoked' = <<>>
    /\ batch' = <<>>
    /\ recvd' = <<>>
    /\ lastCall' = NoCall
    /\ UNCHANGED <<config, callbacks, queue, cur, arrived, registered>>

(***************************************************************************)
(* process(), lines 64-96. One action per step of the loop body; the       *)
(* except clauses are operators over the exception raised.                 *)
(***************************************************************************)
\* every exception class of the model derives from Exception
IsException(e) ==
    e.cls \in {"ParseError", "BuildError", "ValueError", "Exception", "socket.error"}

\* an inner try without its except ParseError clause
inner_except_none(e) == FALSE

\* line 86: the except clause of the inner try
inner_except(e) == e.cls = "ParseError"

\* an outer try without the catch-all clause of line 95
process_except_sockets_only(e) ==
    IF e.cls = "socket.error"
    THEN IF e.errno \in WouldBlockErrnos THEN "return" ELSE "socket_logged"
    ELSE "escapes"

\* an outer try whose socket.error clause raises again what is not would-block
process_except_reraise(e) ==
    IF e.cls = "socket.error"
    THEN IF e.errno \in WouldBlockErrnos THEN "return" ELSE "escapes"
    ELSE IF IsException(e) THEN "logged"
    ELSE "escapes"

\* lines 89-96: the except clauses of the outer try. "return": line 91;
\* "socket_logged": line 93; "logged": line 96; "escapes": no clause matches
process_except(e) ==
    IF e.cls = "socket.error"
    THEN IF e.errno \in WouldBlockErrnos THEN "return" ELSE "socket_logged"
    ELSE IF IsException(e) THEN "logged"
    ELSE "escapes"

\* an exception raised at step `at` reaches the outer try: the call ends
Leave(e, at) ==
    /\ pc' = "DONE"
    /\ cur' = NoCur
    /\ lastCall' = [lastCall EXCEPT
                      !.exc = IF process_except(e) = "escapes" THEN e ELSE NoError,
                      !.exit = process_except(e),
                      !.at = at]

\* an exception raised inside the inner try, lines 71-87
RaiseInLoop(e, at) ==
    IF inner_except(e)
    THEN /\ pc' = "DRAINING"
         /\ cur' = NoCur
         /\ UNCHANGED lastCall
    ELSE Leave(e, at)

Ids(q) == [i \in 1..Len(q) |-> q[i].id]

process_call ==
    /\ AtCaller
    /\ pc' = "DRAINING"
    /\ cur' = NoCur
    /\ batch' = Ids(queue)
    /\ recvd' = <<>>
    /\ lastCall' = [NoCall EXCEPT !.op = "process"]
    /\ UNCHANGED <<config, callbacks, queue, sent, invoked, arrived, registered>>

\* a receive that reads the oldest datagram and leaves it queued
Recv_Peek ==
    /\ pc = "DRAINING"
    /\ \/ /\ queue # <<>>
          /\ cur' = [NoCur EXCEPT !.dgram = Head(queue)]
          /\ recvd' = Append(recvd, [id |-> Head(queue).id, wf |-> WellFormed(Head(queue).data)])
          /\ pc' = "DECODE"
          /\ UNCHANGED <<queue, lastCall>>
       \/ /\ queue = <<>>
          /\ \E errno \in WouldBlockErrnos : Leave(SocketError(errno), "recv")
          /\ UNCHANGED <<queue, recvd>>
       \/ /\ \E errno \in OtherErrnos : Leave(SocketError(errno), "recv")
          /\ UNCHANGED <<queue, recvd>>
    /\ UNCHANGED <<config, callbacks, sent, invoked, batch, arrived, registered>>

\* a receive whose failure discards the datagrams still queued
Recv_FlushOnError ==
    /\ pc = "DRAINING"
    /\ \/ /\ queue # <<>>
          /\ cur' = [NoCur EXCEPT !.dgram = Head(queue)]
          /\ queue' = Tail(queue)
          /\ recvd' = Append(recvd, [id |-> Head(queue).id, wf |-> WellFormed(Head(queue).data)])
          /\ pc' = "DECODE"
          /\ UNCHANGED lastCall
       \/ /\ queue = <<>>
          /\ \E errno \in WouldBlockErrnos : Leave(SocketError(errno), "recv")
          /\ UNCHANGED <<queue, recvd>>
       \/ /\ \E errno \in OtherErrnos : Leave(SocketError(errno), "recv")
          /\ queue' = <<>>
          /\ UNCHANGED recvd
    /\ UNCHANGED <<config, callbacks, sent, invoked, batch, arrived, registered>>

\* line 70: self._socket.recvfrom(65536)
Recv ==
    /\ pc = "DRAINING"
    /\ \/ /\ queue # <<>>
          /\ cur' = [NoCur EXCEPT !.dgram = Head(queue)]
          /\ queue' = Tail(queue)
          /\ recvd' = Append(recvd, [id |-> Head(queue).id, wf |-> WellFormed(Head(queue).data)])
          /\ pc' = "DECODE"
          /\ UNCHANGED lastCall
       \/ /\ queue = <<>>
          /\ \E errno \in WouldBlockErrnos : Leave(SocketError(errno), "recv")
          /\ UNCHANGED <<queue, recvd>>
       \/ /\ \E errno \in OtherErrnos : Leave(SocketError(errno), "recv")
          /\ UNCHANGED <<queue, recvd>>
    /\ UNCHANGED <<config, callbacks, sent, invoked, batch, arrived, registered>>

\* line 72: message = OscMessage(data)
Decode ==
    /\ pc = "DECODE"
    /\ LET message == OscMessage(cur.dgram.data)
       IN IF message.exc # NoError
          THEN RaiseInLoop(message.exc, "decode")
          ELSE /\ cur' = [cur EXCEPT !.address = message.address]
               /\ pc' = "ROUTE"
               /\ UNCHANGED lastCall
    /\ UNCHANGED <<config, callbacks, queue, sent, invoked, batch, recvd, arrived, registered>>

\* line 74: message.address in self._callbacks
dict_has(dict, address) == address \in DOMAIN dict

\* a lookup without the membership test of line 74: KeyError on an
\* unknown address, which ends the call at line 95
Route_KeyError ==
    /\ pc = "ROUTE"
    /\ IF dict_has(callbacks, cur.address)
       THEN /\ cur' = [cur EXCEPT !.callback = callbacks[cur.address]]
            /\ pc' = "INVOKE"
            /\ UNCHANGED lastCall
       ELSE Leave(Exc("Exception"), "route")
    /\ UNCHANGED <<config, callbacks, queue, sent, invoked, batch, recvd, arrived, registered>>

\* an unknown address answered with an error message to the sender
Route_ErrorReply ==
    /\ pc = "ROUTE"
    /\ IF dict_has(callbacks, cur.address)
       THEN /\ cur' = [cur EXCEPT !.callback = callbacks[cur.address]]
            /\ pc' = "INVOKE"
            /\ UNCHANGED sent
       ELSE /\ cur' = NoCur
            /\ pc' = "DRAINING"
            /\ sent' = Append(sent, [dgram |-> Encode("/error", <<>>), dest |-> cur.dgram.src,
                                     by |-> "process", cause |-> cur.dgram])
    /\ UNCHANGED <<config, callbacks, queue, invoked, lastCall, batch, recvd, arrived, registered>>

\* a lookup that reuses the handler found for an earlier datagram of the
\* same call with the same address, whatever the registry holds by now
Route_Cached ==
    /\ pc = "ROUTE"
    /\ LET earlier == {j \in 1..Len(invoked) : invoked[j].address = cur.address}
       IN IF earlier # {}
          THEN /\ cur' = [cur EXCEPT !.callback =
                              invoked[CHOOSE j \in earlier : \A k \in earlier : j <= k].handler]
               /\ pc' = "INVOKE"
          ELSE IF dict_has(callbacks, cur.address)
          THEN /\ cur' = [cur EXCEPT !.callback = callbacks[cur.address]]
               /\ pc' = "INVOKE"
          ELSE /\ cur' = NoCur
               /\ pc' = "DRAINING"
    /\ UNCHANGED <<config, callbacks, queue, sent, invoked, lastCall, batch, recvd,
                   arrived, registered>>

\* lines 74-75 and 84-85
Route ==
    /\ pc = "ROUTE"
    /\ IF dict_has(callbacks, cur.address)
       THEN /\ cur' = [cur EXCEPT !.callback = callbacks[cur.address]]
            /\ pc' = "INVOKE"
       ELSE /\ cur' = NoCur
            /\ pc' = "DRAINING"
    /\ UNCHANGED <<config, callbacks, queue, sent, invoked, lastCall, batch, recvd,
                   arrived, registered>>

\* what the handler returned: None, an empty tuple, a tuple the codec
\* encodes or one it rejects
ResultKind(rv) ==
    IF rv.isNone THEN "none"
    ELSE IF rv.value = <<>> THEN "empty"
    ELSE IF \E i \in 1..Len(rv.value) : rv.value[i] # "int" THEN "unencodable"
    ELSE "encodable"

Invocation(outcome, result, call) ==
    [id |-> cur.dgram.id, address |-> cur.address, handler |-> cur.callback,
     outcome |-> outcome, result |-> result, call |-> call.op]

\* a reply only for a result that is true in a boolean context: if rv:
reply_due_truthy(rv) == ~rv.isNone /\ rv.value # <<>>

\* line 78: if rv is not None
reply_due(rv) == ~rv.isNone

\* what a handler does when called: it runs in the caller's thread with the
\* server at hand, so it may call add_handler or clear_handlers; then it
\* raises, or returns None or a tuple
HandlerBehaviours ==
    {[call |-> NoRegistryCall, raises |-> TRUE, rv |-> ReturnNone]}
       \cup {[call |-> NoRegistryCall, raises |-> FALSE, rv |-> rv] : rv \in HandlerReturns}
       \cup {[call |-> c, raises |-> FALSE, rv |-> rv] :
                c \in RegistryCalls, rv \in {ReturnNone, ReturnValue(<<"int">>)}}

\* lines 76-78: rv = callback(message.params); if rv is not None
Invoke ==
    /\ pc = "INVOKE"
    /\ \E b \in HandlerBehaviours :
          /\ callbacks' = callbacks_after(b.call, callbacks)
          /\ registered' = registered_after(b.call, registered)
          /\ IF b.raises
             THEN /\ invoked' = Append(invoked, Invocation("raised", "none", b.call))
                  /\ RaiseInLoop(Exc("Exception"), "invoke")
             ELSE /\ invoked' = Append(invoked, Invocation("returned", ResultKind(b.rv), b.call))
                  /\ IF reply_due(b.rv)
                     THEN /\ cur' = [cur EXCEPT !.rv = b.rv]
                          /\ pc' = "REPLY"
                     ELSE /\ cur' = NoCur
                          /\ pc' = "DRAINING"
                  /\ UNCHANGED lastCall
    /\ UNCHANGED <<config, queue, sent, batch, recvd, arrived>>

\* a reply sent back to the datagram's source endpoint
response_addr_echo(src, port) == src

\* lines 79-80
response_addr(src, port) == <<src[1], port>>

\* lines 79-83: self.send(address=message.address, params=rv, remote_addr=response_addr)
Reply ==
    /\ pc = "REPLY"
    /\ \E net \in SendtoOutcomes :
          LET r == send(cur.address, cur.rv.value,
                        response_addr(cur.dgram.src, response_port), remote_addr, net)
          IN /\ sent' = sent \o Transmitted(r.out, "process", cur.dgram)
             /\ IF r.exc # NoError
                THEN RaiseInLoop(r.exc, "reply")
                ELSE /\ cur' = NoCur
                     /\ pc' = "DRAINING"
                     /\ UNCHANGED lastCall
    /\ UNCHANGED <<config, callbacks, queue, invoked, batch, recvd, arrived, registered>>

Next ==
    \/ Arrive
    \/ add_handler
    \/ clear_handlers
    \/ CallSend
    \/ process_call
    \/ Recv
    \/ Decode
    \/ Route
    \/ Invoke
    \/ Reply
    \/ Return

Spec == Init /\ [][Next]_vars

(***************************************************************************)
(* Properties.                                                             *)
(***************************************************************************)
HandlerRaised == \E i \in 1..Len(invoked) : invoked[i].outcome = "raised"
BatchReceived == \A i \in 1..Len(batch) : \E j \in 1..Len(recvd) : recvd[j].id = batch[i]
\* the call ended because recvfrom failed with a socket error other than would-block
ReceiveFailed == lastCall.at = "recv" /\ lastCall.exit = "socket_logged"
Unencodable(params) == \E i \in 1..Len(params) : params[i] \in {"unsupported", "overflow"}

\* C1 (P1, isolation): when process() has ended and a handler raised during
\* the call, every datagram of the batch queued at the call was received in
\* that call (unless a later receive itself failed with a socket error).
Isolation ==
    (pc = "DONE" /\ HandlerRaised /\ ~ReceiveFailed) => BatchReceived

\* C2 (P5, drain-to-empty): at every return of process() the socket queue is
\* empty, so that an immediate second call dispatches nothing. Stated here
\* for the calls in which no receive failed with a socket error, which the
\* claim ("whatever happened during that call") covers too.
DrainToEmpty ==
    (pc = "DONE" /\ ~ReceiveFailed) => queue = <<>>

\* C3: no exception escapes process(): whenever a call of process() has
\* ended, it has returned normally, whatever was raised inside it.
NoEscape ==
    (pc = "DONE" /\ lastCall.op = "process") => lastCall.exc = NoError

\* a call of process() that ended on a handler fault and returned normally
NoEscapeWitness ==
    pc = "DONE" /\ HandlerRaised /\ lastCall.at = "invoke" /\ lastCall.exit = "logged"
       /\ lastCall.exc = NoError

\* C4 (P7, send failure containment): a direct send() whose params hold an
\* argument the codec cannot encode returns normally and transmits nothing.
SendContainment ==
    (pc = "SENT" /\ Unencodable(lastCall.params)) => (lastCall.exc = NoError /\ sent = <<>>)

\* C5 (P4, reply addressing): every reply process() sends for a datagram from
\* (h, p) goes to (h, response_port), response_port being the port of the
\* remote address of the constructor, with the address of the inbound
\* message; p is the destination port only when it equals response_port.
ReplyAddressing ==
    /\ response_port = remote_addr[2]
    /\ \A i \in 1..Len(sent) :
          sent[i].by = "process" =>
             /\ sent[i].dest = <<sent[i].cause.src[1], response_port>>
             /\ OscMessage(sent[i].dgram).address = OscMessage(sent[i].cause.data).address
             /\ (sent[i].dest[2] = sent[i].cause.src[2] => sent[i].cause.src[2] = response_port)

\* a reply was sent for a datagram whose source port is not the response port
ReplyAddressingWitness ==
    \E i \in 1..Len(sent) :
       /\ sent[i].by = "process"
       /\ sent[i].cause.src[2] # response_port
       /\ sent[i].dest[1] = sent[i].cause.src[1]

\* C6 (P3, malformed drop): the step that handles a datagram whose decoding
\* fails sends nothing, invokes no handler, leaves the registry alone and
\* goes back to receiving, with the datagrams queued behind it still queued.
MalformedDrop ==
    [][(pc = "DECODE" /\ OscMessage(cur.dgram.data).exc # NoError /\ pc' # pc)
          => (pc' = "DRAINING" /\ UNCHANGED <<sent, invoked, callbacks, queue>>)]_vars

\* a datagram was received in the same call after a malformed one was dropped
MalformedDropWitness ==
    /\ pc = "DECODE"
    /\ Len(recvd) >= 2
    /\ ~recvd[Len(recvd) - 1].wf
    /\ sent = <<>> /\ invoked = <<>>

\* C7 (P2, unknown-address no-op): the step that routes a well-formed
\* datagram whose address has no registered handler invokes nothing, sends
\* nothing and goes back to receiving the next queued datagram.
UnknownAddressNoOp ==
    [][(pc = "ROUTE" /\ cur.address \notin DOMAIN callbacks /\ pc' # pc)
          => (pc' = "DRAINING" /\ UNCHANGED <<sent, invoked, callbacks, queue>>)]_vars

\* a datagram was received in the same call after one with an unknown
\* address was dropped
UnknownAddressWitness ==
    /\ pc = "DECODE"
    /\ Len(recvd) >= 2
    /\ recvd[Len(recvd) - 1].wf
    /\ \A j \in 1..Len(invoked) : invoked[j].id # recvd[Len(recvd) - 1].id
    /\ sent = <<>>

\* C8 (P6, registry overwrite): the handler process() is about to invoke for
\* a message with address A is the handler registered last under exactly A.
RegistryOverwrite ==
    pc = "INVOKE" =>
       /\ cur.address = OscMessage(cur.dgram.data).address
       /\ cur.callback = registered[cur.address].handler
       /\ cur.callback \in Handlers

\* the handler about to be invoked replaced another one under the same
\* address: the one invoked for the previous datagram, which registered it,
\* while the other address has a different handler
RegistryOverwriteWitness ==
    /\ pc = "INVOKE"
    /\ Len(invoked) = 1
    /\ invoked[1].address = cur.address
    /\ invoked[1].handler # cur.callback
    /\ invoked[1].call = "add_handler"
    /\ \E a \in DOMAIN callbacks : a # cur.address /\ callbacks[a] # cur.callback

\* C9: process() transmits a datagram only as the reply to a datagram that
\* decoded, matched a registered handler and whose handler returned; at most
\* one per such datagram.
NoErrorResponse ==
    \A i \in 1..Len(sent) :
       sent[i].by = "process" =>
          /\ WellFormed(sent[i].cause.data)
          /\ \E j \in 1..Len(invoked) :
                /\ invoked[j].id = sent[i].cause.id
                /\ invoked[j].outcome = "returned"
                /\ invoked[j].handler \in Handlers
                /\ invoked[j].address = OscMessage(sent[i].cause.data).address
          /\ \A k \in 1..Len(sent) : sent[k].cause.id = sent[i].cause.id => k = i

\* a call that sent one reply and then ended on a handler fault: the reply
\* is the only datagram sent
NoErrorResponseWitness ==
    pc = "DONE" /\ HandlerRaised /\ Len(sent) = 1 /\ Len(recvd) = 2

\* C10 (send destination): a send() that encoded its message and whose
\* sendto succeeded has transmitted exactly that one datagram, to the given
\* destination, or to the default remote address when none was given; any
\* other send() has transmitted nothing; sendto is called at most once.
SendSucceeded == lastCall.attempts = 1 /\ lastCall.exc = NoError
SendDestination ==
    pc = "SENT" =>
       /\ lastCall.attempts <= 1
       /\ IF SendSucceeded
          THEN sent = <<[dgram |-> Encode(lastCall.address, lastCall.params),
                         dest |-> IF lastCall.dest = NoneAddr THEN remote_addr
                                  ELSE lastCall.dest,
                         by |-> "send", cause |-> NoDgram]>>
          ELSE sent = <<>>

\* a send() with an explicit destination has transmitted its datagram
SendDestinationWitness ==
    pc = "SENT" /\ SendSucceeded /\ lastCall.dest # NoneAddr /\ Len(sent) = 1

\* the call ended on a socket error: recvfrom or sendto failed, other than
\* the would-block of recvfrom on an empty queue that ends every drain
SocketErrorOccurred ==
    \/ lastCall.exit = "socket_logged"
    \/ (lastCall.exit = "return" /\ lastCall.at # "recv")

\* C11 (drain termination): a process() call that has ended without a socket
\* error has received every datagram that was queued when it was called.
DrainComplete ==
    (pc = "DONE" /\ ~SocketErrorOccurred) => BatchReceived

\* C12 (exit paths): a process() call ends only at a receive attempt, on
\* would-block or on another socket error; never at the decode, routing,
\* handler or reply step.
ExitOnlyAtReceive ==
    pc = "DONE" => lastCall.at = "recv"

\* C13 (reply failure isolation): a reply that cannot be sent does not end
\* the call: when the call has ended, it has not ended at a reply step with
\* datagrams still queued.
ReplyFailureIsolated ==
    (pc = "DONE" /\ lastCall.at = "reply") => queue = <<>>

\* the number of replies sent for the datagram of invocation j
Replies(j) == Cardinality({i \in 1..Len(sent) : sent[i].cause.id = invoked[j].id})
\* the reply step of invocation j is still to come
ReplyPending(j) == pc = "REPLY" /\ cur.dgram.id = invoked[j].id
\* the call ended at the reply step of invocation j
EndedAtReply(j) == pc = "DONE" /\ lastCall.at = "reply" /\ j = Len(invoked)
\* invocation j returned and everything process() does for its datagram is done
Settled(j) ==
    invoked[j].outcome = "returned" /\ ~ReplyPending(j) /\ ~EndedAtReply(j)

\* C14 (reply condition), as claimed: for a dispatched datagram process()
\* sends exactly one reply when the handler returns a non-empty result (one
\* that can be encoded and transmitted), and none when the handler returns
\* nothing or an empty sequence.
ReplyCondition ==
    \A j \in 1..Len(invoked) :
       Settled(j) =>
          /\ invoked[j].result = "encodable" => Replies(j) = 1
          /\ invoked[j].result \in {"none", "empty"} => Replies(j) = 0

\* C14, amended: exactly one reply when the handler returns a result that is
\* not None, an empty sequence included, and the reply is encoded and
\* transmitted; no reply when the handler returns None or a result the codec
\* rejects, or when sending the reply ended the call.
ReplyConditionAmended ==
    \A j \in 1..Len(invoked) :
       /\ Settled(j) =>
             /\ invoked[j].result \in {"empty", "encodable"} => Replies(j) = 1
             /\ invoked[j].result \in {"none", "unencodable"} => Replies(j) = 0
       /\ EndedAtReply(j) => Replies(j) = 0
       /\ ReplyPending(j) => invoked[j].result # "none" /\ Replies(j) = 0

\* a handler returned an empty sequence and its reply, a message without
\* arguments, was sent
ReplyConditionWitness ==
    \E j \in 1..Len(invoked) :
       /\ Settled(j)
       /\ invoked[j].result = "empty"
       /\ \E i \in 1..Len(sent) :
             /\ sent[i].cause.id = invoked[j].id
             /\ OscMessage(sent[i].dgram).params = <<>>

\* the step in which recvfrom fails with a socket error other than would-block
ReceiveErrorStep == pc = "DRAINING" /\ pc' = "DONE" /\ lastCall'.exit # "return"

\* C15 (receive-side socket error): the step in which a receive fails with a
\* socket error other than would-block ends the call normally (line 93) and
\* changes neither the dispatches and replies made so far, nor the registry,
\* nor the queue; the ended call does nothing more before control is back in
\* the application; and a later call that finds a datagram queued can
\* receive it.
ReceiveErrorReturns ==
    /\ [][/\ ReceiveErrorStep =>
                /\ lastCall'.exit = "socket_logged"
                /\ lastCall'.exc = NoError
                /\ UNCHANGED <<invoked, sent, callbacks, registered, queue, recvd, config>>
          /\ pc = "DONE" =>
                /\ pc' = "IDLE"
                /\ UNCHANGED <<callbacks, registered, queue, config>>]_vars
    /\ [](pc = "DRAINING" /\ queue # <<>> => ENABLED (Recv /\ pc' = "DECODE"))

\* a call that dispatched a datagram and sent its reply, and then ended on a
\* failed receive with another datagram still queued
ReceiveErrorWitness ==
    /\ pc = "DONE"
    /\ ReceiveFailed
    /\ lastCall.exc = NoError
    /\ invoked # <<>>
    /\ sent # <<>>
    /\ queue # <<>>

\* no address has a handler since the last clear_handlers (or construction)
NothingRegistered == \A a \in Addresses : registered[a].handler = None

\* C16 (clear_handlers): the registry holds exactly the addresses registered
\* since the last clear_handlers, each with the handler registered last; as
\* long as none is, the registry is empty and no datagram reaches a handler
\* invocation, whatever was registered before the clear.
RegistryCleared ==
    /\ DOMAIN callbacks = {a \in Addresses : registered[a].handler # None}
    /\ \A a \in DOMAIN callbacks : callbacks[a] = registered[a].handler
    /\ NothingRegistered => (callbacks = EmptyDict /\ pc # "INVOKE")

\* a handler was invoked for a message and called clear_handlers; the next
\* well-formed datagram was received in the same call and was dropped as
\* unknown: no handler invoked, nothing sent
RegistryClearedWitness ==
    /\ pc = "DRAINING"
    /\ NothingRegistered
    /\ Len(invoked) = 1 /\ invoked[1].call = "clear_handlers"
    /\ invoked[1].result = "none"
    /\ Len(recvd) = 2 /\ recvd[2].wf /\ recvd[1].id = invoked[1].id
    /\ sent = <<>>

\* the number of datagrams removed from the queue so far
Consumed == arrived - Len(queue)
Increasing(ids) == \A i, j \in 1..Len(ids) : i < j => ids[i] < ids[j]
CauseIds == [i \in 1..Len(sent) |-> sent[i].cause.id]

\* C17 (at most once, in order): datagrams are numbered in the order they
\* were queued. The queue holds exactly the datagrams not removed yet, in
\* that order; the datagrams a call received, those it dispatched and those
\* it replied to are each in queue order without repetition, are no longer
\* queued, and every reply belongs to a dispatch and every dispatch to a
\* received datagram; the datagram being handled is the last one received.
AtMostOnceInOrder ==
    /\ \A i \in 1..Len(queue) : queue[i].id = Consumed + i
    /\ Increasing(Ids(recvd)) /\ Increasing(Ids(invoked)) /\ Increasing(CauseIds)
    /\ \A i \in 1..Len(recvd) : recvd[i].id \in 1..Consumed
    /\ \A j \in 1..Len(invoked) : \E i \in 1..Len(recvd) : recvd[i].id = invoked[j].id
    /\ \A k \in 1..Len(sent) :
          sent[k].by = "process" =>
             \E j \in 1..Len(invoked) : invoked[j].id = sent[k].cause.id
    /\ pc \in {"DECODE", "ROUTE", "INVOKE", "REPLY"} =>
          /\ recvd # <<>> /\ cur.dgram.id = recvd[Len(recvd)].id
          /\ \A k \in 1..Len(sent) : sent[k].cause.id # cur.dgram.id
          /\ pc # "REPLY" => \A j \in 1..Len(invoked) : invoked[j].id # cur.dgram.id

\* one call dispatched the two queued datagrams in their order and sent
\* their two replies in that order
AtMostOnceWitness ==
    /\ pc = "DONE"
    /\ Ids(recvd) = <<1, 2>>
    /\ Ids(invoked) = <<1, 2>>
    /\ CauseIds = <<1, 2>>
    /\ queue = <<>>

\* the step removes the oldest datagram from the queue and hands it to the loop
ReceivesHead ==
    /\ pc = "DRAINING" /\ pc' = "DECODE"
    /\ queue # <<>> /\ queue' = Tail(queue) /\ cur'.dgram = Head(queue)
\* the step queues one new datagram behind those already queued
QueuesBehind ==
    /\ Len(queue') = Len(queue) + 1
    /\ SubSeq(queue', 1, Len(queue)) = queue
    /\ arrived' = arrived + 1

\* C18 (no unread datagram lost): the step that ends a process() call, and
\* the return to the caller, leave the queue as it is; the queue changes only
\* when the network queues a datagram behind the others or when a receive
\* takes the oldest one, which a call that finds datagrams queued can do;
\* the datagram being handled when the call ends is not queued again.
NoUnreadLost ==
    /\ [][/\ (pc' = "DONE" \/ pc = "DONE") =>
                /\ queue' = queue
                /\ \A i \in 1..Len(queue') : queue'[i].id # cur.dgram.id
          /\ queue' # queue => (ReceivesHead \/ QueuesBehind)]_vars
    /\ [](pc = "DRAINING" /\ queue # <<>>
             => ENABLED (Recv /\ cur'.dgram = Head(queue)))

\* a call ended early, on a handler fault or a failed reply, with an unread
\* datagram of its batch still queued and the datagram it was handling gone
NoUnreadLostWitness ==
    /\ pc = "DONE"
    /\ lastCall.at \in {"invoke", "reply"}
    /\ queue # <<>>
    /\ \E i \in 1..Len(batch) : batch[i] = Head(queue).id
    /\ invoked # <<>>
    /\ \A i \in 1..Len(queue) : queue[i].id # invoked[Len(invoked)].id

\* a handler invoked earlier in the current call called add_handler or
\* clear_handlers
RegistryModifiedInCall == \E j \in 1..Len(invoked) : invoked[j].call # "none"

\* C19 (live registry): once a handler has called add_handler or
\* clear_handlers during a process() call, each datagram routed later in
\* that call goes to the handler registered last under its address, and is
\* dropped without an invocation when none is; the handler that made the
\* call was invoked all the same, and the reply for its result is sent.
LiveRegistry ==
    /\ [][(pc = "ROUTE" /\ RegistryModifiedInCall /\ pc' # pc) =>
             IF registered[cur.address].handler # None
             THEN /\ pc' = "INVOKE"
                  /\ cur'.callback = registered[cur.address].handler
             ELSE /\ pc' = "DRAINING"
                  /\ UNCHANGED <<invoked, sent>>]_vars
    /\ [](\A j \in 1..Len(invoked) :
             (invoked[j].call # "none" /\ Settled(j) /\ invoked[j].result = "encodable")
                => Replies(j) = 1)

\* a handler replaced itself by another handler under its own address and
\* returned a result; its reply was sent, and the next datagram with that
\* address is about to be dispatched to the new handler
LiveRegistryWitness ==
    /\ pc = "INVOKE"
    /\ Len(invoked) = 1
    /\ invoked[1].call = "add_handler"
    /\ invoked[1].address = cur.address
    /\ cur.callback # invoked[1].handler
    /\ Len(sent) = 1 /\ sent[1].cause.id = invoked[1].id

\* the step is a call of add_handler or clear_handlers: by the application,
\* or by a handler that process() is running
RegistryCallStep ==
    \/ pc = "IDLE" /\ pc' = "IDLE"
    \/ pc = "INVOKE" /\ invoked'[Len(invoked')].call # "none"

\* C20 (frame): the local address, the default remote address and the
\* response port are those of the constructor, and no step changes them;
\* the registry changes only in a call of add_handler or clear_handlers,
\* never in a step of send() or in a step of process()'s own code.
ConfigurationFixed ==
    /\ [](/\ local_addr = <<"0.0.0.0", OSC_LISTEN_PORT>>
          /\ remote_addr \in RemoteAddrs
          /\ response_port = remote_addr[2])
    /\ [][/\ config' = config
          /\ callbacks' # callbacks => RegistryCallStep
          /\ pc' = "SENT" => callbacks' = callbacks]_vars

\* a send() to an explicit destination other than the default has
\* transmitted its datagram there, with handlers registered
ConfigurationFixedWitness ==
    /\ pc = "SENT"
    /\ lastCall.dest \in Destinations
    /\ Len(sent) = 1 /\ sent[1].dest = lastCall.dest /\ sent[1].dest # remote_addr
    /\ callbacks # EmptyDict

====
